---------------------------- MODULE Spec2Model ----------------------------
(***************************************************************************)
(* Model of the read-only query gateway of cu_mcp/server.py: the statement *)
(* validator (is_safe_query), the tool entry points execute_sql,           *)
(* get_schema and get_example_queries, the worker that runs a validated    *)
(* statement under a deadline, and the dataset connections they open.      *)
(*                                                                         *)
(* Text is a sequence of one-character strings, so that strip(), upper(),  *)
(* lower(), startswith() and the substring test are computed as Python     *)
(* computes them.                                                          *)
(***************************************************************************)
EXTENDS Integers, Sequences, FiniteSets, TLC

VARIABLES
    vQuery,     \* validator harness: the text under classification
    vDirect,    \* validator harness: is_safe_query(vQuery), once computed
    vGateway,   \* validator harness: execute_sql's own validation of vQuery
    capFrame,   \* row-cap harness: the frame the engine handed back
    capEnvelope,\* row-cap harness: the success envelope built from capFrame
    dataset,    \* the dataset file: "missing", "ok", or "stale" (a view no longer binds)
    tool,       \* per call: the tool being served
    arg,        \* per call: the caller's argument
    pc,         \* per call: where the calling thread is
    worker,     \* per call: the executor's worker thread
    submits,    \* per call: how many times executor.submit has been called
    future,     \* per call: the future the worker fills
    conn,       \* per call: the dataset connection the call opened
    timedOut,   \* per call: future.result raised TimeoutError
    outcome     \* per call: what crossed the tool boundary

valVars == <<vQuery, vDirect, vGateway>>
capVars == <<capFrame, capEnvelope>>
gwVars == <<dataset, tool, arg, pc, worker, submits, future, conn, timedOut, outcome>>
vars == <<valVars, capVars, gwVars>>

-----------------------------------------------------------------------------
(* Bounds of the model. *)

\* Largest number of fragments concatenated into one validator input.
MaxFrags == 3

\* How far past MAX_ROWS the engine results of the row-cap harness reach.
MaxExtraRows == 2

\* Number of tool calls the host issues; they may overlap in any way.
MaxCalls == 2

-----------------------------------------------------------------------------
(* Text primitives (Python str methods). *)

LowerLetters ==
    <<"a","b","c","d","e","f","g","h","i","j","k","l","m",
      "n","o","p","q","r","s","t","u","v","w","x","y","z">>

UpperLetters ==
    <<"A","B","C","D","E","F","G","H","I","J","K","L","M",
      "N","O","P","Q","R","S","T","U","V","W","X","Y","Z">>

\* The characters str.strip() removes (those the model's inputs use).
Whitespace == {" ", "\t", "\n"}

UpperChar(ch) ==
    IF \E i \in DOMAIN LowerLetters : LowerLetters[i] = ch
    THEN UpperLetters[CHOOSE i \in DOMAIN LowerLetters : LowerLetters[i] = ch]
    ELSE ch

LowerChar(ch) ==
    IF \E i \in DOMAIN UpperLetters : UpperLetters[i] = ch
    THEN LowerLetters[CHOOSE i \in DOMAIN UpperLetters : UpperLetters[i] = ch]
    ELSE ch

\* str.upper()
Upper(s) == [i \in DOMAIN s |-> UpperChar(s[i])]

\* str.lower()
Lower(s) == [i \in DOMAIN s |-> LowerChar(s[i])]

\* str.strip(): drops leading and trailing whitespace, keeps the inside.
Strip(s) ==
    LET keep == {i \in DOMAIN s : s[i] \notin Whitespace}
    IN  IF keep = {} THEN <<>>
        ELSE LET first == CHOOSE i \in keep : \A j \in keep : i <= j
                 last  == CHOOSE i \in keep : \A j \in keep : j <= i
             IN  SubSeq(s, first, last)

\* str.startswith(prefix)
StartsWith(s, prefix) ==
    /\ Len(prefix) <= Len(s)
    /\ SubSeq(s, 1, Len(prefix)) = prefix

\* `sub in s` for strings
Contains(s, sub) ==
    \E i \in 0..(Len(s) - Len(sub)) : SubSeq(s, i + 1, i + Len(sub)) = sub

\* A message built by an f-string: its fixed text and the interpolated value.
Msg(text, value) == [text |-> text, arg |-> value]

-----------------------------------------------------------------------------
(* Statement validation. *)

SELECT == <<"S","E","L","E","C","T">>

FORBIDDEN_KEYWORDS ==
    << <<"D","R","O","P">>,
       <<"D","E","L","E","T","E">>,
       <<"I","N","S","E","R","T">>,
       <<"U","P","D","A","T","E">>,
       <<"A","L","T","E","R">>,
       <<"C","R","E","A","T","E">>,
       <<"T","R","U","N","C","A","T","E">> >>

OnlySelectMsg == Msg("Only SELECT queries are allowed", <<>>)
EmptyQueryMsg == Msg("Query cannot be empty", <<>>)
ForbiddenMsg(keyword) == Msg("Query contains forbidden keyword: ", keyword)
NoMsg == Msg("", <<>>)

\* The comparison text without the case fold.
query_upper_unfolded(query) == Strip(query)

\* query.strip().upper(): the text every test of is_safe_query is run on.
query_upper(query) == Upper(Strip(query))

\* A shape test that looks for SELECT anywhere in the text.
IsSelectAnywhere(folded) == Contains(folded, SELECT)

\* query_upper.startswith("SELECT")
IsSelect(folded) == StartsWith(folded, SELECT)

\* is_safe_query: <<is_valid, error_message>>.  The keyword loop returns at
\* the first keyword, in list order, that the upper-cased text contains.
is_safe_query(query) ==
    LET folded == query_upper(query)
        hits == {k \in DOMAIN FORBIDDEN_KEYWORDS :
                    Contains(folded, FORBIDDEN_KEYWORDS[k])}
    IN  IF ~IsSelect(folded)
        THEN <<FALSE, OnlySelectMsg>>
        ELSE IF hits # {}
        THEN <<FALSE, ForbiddenMsg(FORBIDDEN_KEYWORDS[
                          CHOOSE k \in hits : \A j \in hits : k <= j])>>
        ELSE <<TRUE, NoMsg>>

\* The validation at the head of execute_sql: the rejection envelope, or
\* Accepted when the statement goes on to the worker.
Accepted == [accepted |-> TRUE]

execute_sql_validate(query) ==
    IF Strip(query) = <<>>
    THEN [error |-> EmptyQueryMsg, query |-> query]
    ELSE LET verdict == is_safe_query(query)
         IN  IF ~verdict[1]
             THEN [error |-> verdict[2], query |-> query]
             ELSE Accepted

-----------------------------------------------------------------------------
(* Validator harness: is_safe_query and execute_sql's validation applied   *)
(* to every text built from at most MaxFrags fragments.                    *)

Fragments ==
    { <<" ">>, <<"\t">>, <<"'">>, <<"x">>,
      <<"s","e","l","e","c","t">>,
      <<"S","E","L","E","C","T">>,
      <<"S","e","l","e","c","t">>,
      <<"d","r","o","p">>,
      <<"D","e","l","e","t","e">>,
      <<"u","p">>,
      <<"D","A","T","E">>,
      <<"a","t","t","a","c","h">> }

RECURSIVE Concats(_)
Concats(n) ==
    IF n = 0 THEN {<<>>}
    ELSE LET shorter == Concats(n - 1)
         IN  shorter \cup {s \o f : s \in shorter, f \in Fragments}

ValidatorInputs == Concats(MaxFrags)

NotRun == [run |-> FALSE]

ValInit ==
    /\ vQuery \in ValidatorInputs
    /\ vDirect = NotRun
    /\ vGateway = NotRun

\* A caller invokes is_safe_query directly.
ValidateDirect ==
    /\ vDirect = NotRun
    /\ vDirect' = [run |-> TRUE, verdict |-> is_safe_query(vQuery)]
    /\ UNCHANGED <<vQuery, vGateway>>

\* A caller reaches the validator through execute_sql.
ValidateViaGateway ==
    /\ vGateway = NotRun
    /\ vGateway' = [run |-> TRUE, outcome |-> execute_sql_validate(vQuery)]
    /\ UNCHANGED <<vQuery, vDirect>>

-----------------------------------------------------------------------------
(* Tabular results and their serialization. *)

MAX_ROWS == 1000
SAMPLE_ROW_LIMIT == 5

CU_NUMBER == <<"c","u","_","n","u","m","b","e","r">>
CU_NAME == <<"c","u","_","n","a","m","e">>
CYCLE_DATE == <<"c","y","c","l","e","_","d","a","t","e">>

\* A cell is an engine-native scalar: its Python type and its payload.
Cell(kind, v) == [kind |-> kind, v |-> v]
NullKinds == {"nan", "none", "nat"}
None == Cell("null", 0)
NaN == Cell("nan", 0)
NaT == Cell("nat", 0)
\* The text "NaT", which is what NaT.isoformat() returns.
NaTText == Cell("text_NaT", 0)

\* The dtype of column j of a result, which follows from the cells it holds:
\* a column of timestamps and NaT is datetime64, one of floats and NaN is
\* float64, one of integers is int64, anything else (and a column of no
\* cells) is object.
ColumnDtype(rows, j) ==
    LET kinds == {rows[i][j].kind : i \in DOMAIN rows}
    IN  CASE kinds = {} -> "object"
          [] kinds \subseteq {"timestamp", "nat"} -> "datetime64"
          [] kinds \subseteq {"numpy_float", "nan"} -> "float64"
          [] kinds \subseteq {"numpy_int"} -> "int64"
          [] OTHER -> "object"

\* A DataFrame: ordered column names, the dtype of each column and ordered
\* rows of cells.
Frame(columns, rows) ==
    [columns |-> columns,
     dtypes |-> [j \in DOMAIN columns |-> ColumnDtype(rows, j)],
     rows |-> rows]

\* len(frame)
FrameLen(frame) == Len(frame.rows)

\* frame.head(n): the first n rows, the columns and their dtypes unchanged.
FrameHead(frame, n) ==
    [frame EXCEPT !.rows =
        SubSeq(frame.rows, 1, IF n < Len(frame.rows) THEN n ELSE Len(frame.rows))]

\* frame.where(pd.notnull(frame), None), for one cell of a column of the given
\* dtype: a non-null cell is kept; for a null cell the replacement None is
\* first standardised to the column's dtype, so only an object column takes
\* None, a float64 column keeps NaN and a datetime64 column keeps NaT.
Where(dtype, cell) ==
    IF cell.kind \notin NullKinds
    THEN cell
    ELSE CASE dtype = "datetime64" -> NaT
           [] dtype = "float64" -> NaN
           [] OTHER -> None

\* isinstance checks in source order: NaT is not a pd.Timestamp but is a
\* datetime.datetime; a Python float (NaN included) has no item().
_serialize_value(value) ==
    CASE value.kind = "timestamp" -> Cell("isotext", value.v)
      [] value.kind = "nat" -> NaTText
      [] value.kind \in {"datetime", "date"} -> Cell("isotext", value.v)
      [] value.kind = "decimal" -> Cell("float", value.v)
      [] value.kind = "numpy_int" -> Cell("int", value.v)
      [] value.kind = "numpy_float" -> Cell("float", value.v)
      [] OTHER -> value

\* One row of to_dict("records") after the loop over its items: column
\* name -> cell.
RowRecord(columns, dtypes, row) ==
    [name \in {columns[j] : j \in DOMAIN columns} |->
        LET j == CHOOSE j \in DOMAIN columns : columns[j] = name
            value == Where(dtypes[j], row[j])
        IN  IF value = None THEN value ELSE _serialize_value(value)]

_serialize_dataframe(frame) ==
    IF frame.rows = <<>> \/ frame.columns = <<>>
    THEN <<>>
    ELSE [i \in DOMAIN frame.rows |->
             RowRecord(frame.columns, frame.dtypes, frame.rows[i])]

NoWarning == [none |-> TRUE]
LimitWarning == [none |-> FALSE,
                 text |-> "Results limited to 1000 rows (too many to display)"]

\* A cap test that also truncates a result of exactly MAX_ROWS rows.
OverCapInclusive(frame) == FrameLen(frame) >= MAX_ROWS

OverCap(frame) == FrameLen(frame) > MAX_ROWS

\* The tail of execute_sql: cap the frame, then build the success envelope.
SuccessEnvelope(query, frame) ==
    LET over == OverCap(frame)
        result_df == IF over THEN FrameHead(frame, MAX_ROWS) ELSE frame
        warning == IF over THEN LimitWarning ELSE NoWarning
    IN  [data |-> _serialize_dataframe(result_df),
         row_count |-> FrameLen(result_df),
         query |-> query,
         warning |-> warning]

-----------------------------------------------------------------------------
(* Row-cap harness: the tail of execute_sql applied to engine results of   *)
(* 0 .. MAX_ROWS + MaxExtraRows rows.                                      *)

ROA == <<"r","o","a">>

\* The i-th row of a generated result: its ordinal (int64), a name that is
\* NULL in every second row (object), a date that is NULL in every third
\* row (datetime64) and a ratio that is NULL in every fifth row (float64).
CapRow(i) ==
    << Cell("numpy_int", i),
       IF i % 2 = 0 THEN Cell("none", 0) ELSE Cell("str", i),
       IF i % 3 = 0 THEN NaT ELSE Cell("timestamp", i),
       IF i % 5 = 0 THEN NaN ELSE Cell("numpy_float", i) >>

CapColumns == <<CU_NUMBER, CU_NAME, CYCLE_DATE, ROA>>

CapFrameOf(n) == Frame(CapColumns, [i \in 1..n |-> CapRow(i)])

CapQuery == <<"s","e","l","e","c","t"," ","1">>

CapInit ==
    /\ capFrame \in {CapFrameOf(n) : n \in 0..(MAX_ROWS + MaxExtraRows)}
    /\ capEnvelope = NotRun

CapApply ==
    /\ capEnvelope = NotRun
    /\ capEnvelope' = [run |-> TRUE, envelope |-> SuccessEnvelope(CapQuery, capFrame)]
    /\ UNCHANGED capFrame

-----------------------------------------------------------------------------
(* The dataset: the relations of the DuckDB file and what the engine       *)
(* answers.  The file is never written by the gateway, so it is fixed for  *)
(* a whole behaviour.                                                      *)

FOICU == <<"f","o","i","c","u">>
FS220 == <<"f","s","2","2","0">>
CU_WITH_RATIOS == <<"c","u","_","w","i","t","h","_","r","a","t","i","o","s">>
TABLES == <<"t","a","b","l","e","s">>

Column(name, type) == [name |-> name, type |-> type]

Relation(schema, name, type, columns, rows, binds) ==
    [table_schema |-> schema, table_name |-> name, table_type |-> type,
     columns |-> columns, rows |-> rows, binds |-> binds]

FoicuRows ==
    << <<Cell("numpy_int", 1), Cell("str", 11)>>,
       <<Cell("numpy_int", 2), Cell("none", 0)>> >>

Fs220Rows ==
    << <<Cell("numpy_int", 1), Cell("timestamp", 1)>>,
       <<Cell("numpy_int", 1), Cell("timestamp", 2)>>,
       <<Cell("numpy_int", 2), Cell("timestamp", 2)>> >>

\* information_schema.tables, in table_name order.  In a "stale" dataset the
\* view cu_with_ratios no longer binds to its base tables.
Catalog(ds) ==
    << Relation("main", CU_WITH_RATIOS, "VIEW",
                <<Column(CU_NUMBER, "BIGINT"), Column(CYCLE_DATE, "DATE")>>,
                Fs220Rows, ds # "stale"),
       Relation("main", FOICU, "BASE TABLE",
                <<Column(CU_NUMBER, "BIGINT"), Column(CU_NAME, "VARCHAR")>>,
                FoicuRows, TRUE),
       Relation("main", FS220, "BASE TABLE",
                <<Column(CU_NUMBER, "BIGINT"), Column(CYCLE_DATE, "DATE")>>,
                Fs220Rows, TRUE),
       Relation("information_schema", TABLES, "VIEW",
                <<Column(CU_NAME, "VARCHAR")>>, <<>>, TRUE) >>

\* WHERE table_schema NOT IN ('information_schema', 'pg_catalog')
UserVisible(rel) == rel.table_schema \notin {"information_schema", "pg_catalog"}

Exception(type, text) == [type |-> type, text |-> text]
FileNotFoundError == Exception("FileNotFoundError", "Database not found")
EngineError(text) == Exception("duckdb.Error", text)

Returned(envelope) == [kind |-> "envelope", envelope |-> envelope]
Raised(exception) == [kind |-> "exception", exception |-> exception]
NoOutcome == [kind |-> "none"]

\* The statements the model's callers send to execute_sql.
Q_EMPTY == <<>>
Q_BLANK == <<" ","\t">>
Q_SELECT_1 == <<"s","e","l","e","c","t"," ","1">>
Q_UNKNOWN_COLUMN == <<" ","S","e","L","e","C","t"," ","x">>
Q_FOICU == <<"S","E","L","E","C","T"," ","*"," ","F","R","O","M"," ","f","o","i","c","u">>
Q_NO_ROWS == <<"s","e","l","e","c","t"," ","1"," ","l","i","m","i","t"," ","0">>
Q_DROP == <<"d","r","o","p"," ","t","a","b","l","e"," ","f","o","i","c","u">>
Q_LITERAL == <<"s","e","l","e","c","t"," ","'","D","e","l","e","t","e","d","'">>
Q_EXPLAIN == <<"e","x","p","l","a","i","n"," ","s","e","l","e","c","t"," ","1">>
Q_ATTACH == <<"s","e","l","e","c","t"," ","1",";","a","t","t","a","c","h"," ","'","x","'">>

Queries ==
    {Q_EMPTY, Q_BLANK, Q_SELECT_1, Q_UNKNOWN_COLUMN, Q_FOICU, Q_NO_ROWS,
     Q_DROP, Q_LITERAL, Q_EXPLAIN, Q_ATTACH}

\* conn.execute(query).fetchdf() on a read-only connection to the dataset:
\* the frame, or the exception the engine raises.
Engine(ds, query) ==
    CASE query = Q_SELECT_1 ->
            [ok |-> TRUE, frame |-> Frame(<<CU_NUMBER>>, << <<Cell("numpy_int", 1)>> >>)]
      [] query = Q_FOICU ->
            [ok |-> TRUE, frame |-> Frame(<<CU_NUMBER, CU_NAME>>, FoicuRows)]
      [] query = Q_NO_ROWS ->
            [ok |-> TRUE, frame |-> Frame(<<CU_NUMBER>>, <<>>)]
      [] query = Q_UNKNOWN_COLUMN ->
            [ok |-> FALSE, exception |-> EngineError("Binder Error")]
      [] OTHER ->
            [ok |-> FALSE, exception |-> EngineError("Parser Error")]

-----------------------------------------------------------------------------
(* Connections. *)

NoConn == [state |-> "none"]
Close(connection) == [connection EXCEPT !.state = "closed"]

\* A connection helper that opens the file with duckdb's default mode,
\* read_only=False.
_get_connection_writable(ds) ==
    IF ds = "missing"
    THEN [ok |-> FALSE, exception |-> FileNotFoundError]
    ELSE [ok |-> TRUE, conn |-> [state |-> "open", read_only |-> FALSE]]

\* _ensure_database, then duckdb.connect(str(DB_PATH), read_only=True).
_get_connection(ds) ==
    IF ds = "missing"
    THEN [ok |-> FALSE, exception |-> FileNotFoundError]
    ELSE [ok |-> TRUE, conn |-> [state |-> "open", read_only |-> TRUE]]

\* An optional tool argument.
NoArg == [none |-> TRUE]
Some(text) == [none |-> FALSE, text |-> text]

\* Python truthiness of an Optional[str].
Truthy(a) == ~a.none /\ a.text # <<>>

-----------------------------------------------------------------------------
(* Schema inspection: the body of get_schema inside its connection scope.  *)

RECOMMENDATION == "Use the cu_with_ratios view for most analytical queries"

TableDescription(name) ==
    CASE name = CU_WITH_RATIOS ->
            "Consolidated view that joins identifying info with pre-calculated ratios"
      [] name = FOICU -> "Credit union identity (charter, branchings, geography)"
      [] name = FS220 -> "Primary financial schedule with core account balances"
      [] OTHER -> ""

ColumnDescription(name) ==
    CASE name = CU_NUMBER -> "Unique credit union identifier assigned by the NCUA"
      [] name = CYCLE_DATE -> "Quarter end date for the reported metrics"
      [] name = CU_NAME -> "Credit union legal name"
      [] OTHER -> ""

_table_type_to_string(table_type) == IF table_type = "VIEW" THEN "view" ELSE "table"

\* A metadata comparison that forgets to fold case.
NameMatchesExact(rel, normalized_name) == rel.table_name = normalized_name

\* LOWER(table_name) = ?  with the parameter normalized_name.lower()
NameMatches(rel, normalized_name) == Lower(rel.table_name) = Lower(normalized_name)

\* The rows of the metadata query, as positions in the catalog.
Lookup(ds, normalized_name) ==
    {i \in DOMAIN Catalog(ds) :
        /\ UserVisible(Catalog(ds)[i])
        /\ NameMatches(Catalog(ds)[i], normalized_name)}

FirstRows(rows, n) == SubSeq(rows, 1, IF n < Len(rows) THEN n ELSE Len(rows))

\* The sample query: the latest cycle_date only when the relation has such a
\* column, the first rows in storage order otherwise.
SampleRows(rel) ==
    LET dated == {j \in DOMAIN rel.columns : Lower(rel.columns[j].name) = CYCLE_DATE}
    IN  IF dated = {}
        THEN FirstRows(rel.rows, SAMPLE_ROW_LIMIT)
        ELSE LET j == CHOOSE j \in dated : \A k \in dated : j <= k
                 known == {i \in DOMAIN rel.rows : rel.rows[i][j].kind \notin NullKinds}
                 latest == {i \in known : \A k \in known : rel.rows[k][j].v <= rel.rows[i][j].v}
                 recent == SelectSeq([i \in DOMAIN rel.rows |-> i], LAMBDA i : i \in latest)
             IN  FirstRows([n \in DOMAIN recent |-> rel.rows[recent[n]]], SAMPLE_ROW_LIMIT)

SchemaRecord(rel) ==
    [table_name |-> rel.table_name,
     type |-> _table_type_to_string(rel.table_type),
     description |-> TableDescription(rel.table_name),
     columns |-> [j \in DOMAIN rel.columns |->
                    [name |-> rel.columns[j].name,
                     type |-> rel.columns[j].type,
                     description |-> ColumnDescription(rel.columns[j].name)]],
     row_count |-> Len(rel.rows),
     sample_data |-> _serialize_dataframe(
                        Frame([j \in DOMAIN rel.columns |-> rel.columns[j].name],
                              SampleRows(rel)))]

TableListing(ds) ==
    LET visible == SelectSeq(Catalog(ds), UserVisible)
    IN  [tables |-> [i \in DOMAIN visible |->
                        [name |-> visible[i].table_name,
                         type |-> _table_type_to_string(visible[i].table_type),
                         description |-> TableDescription(visible[i].table_name)]],
         recommendation |-> RECOMMENDATION]

EmptyNameMsg == Msg("table_name cannot be empty", <<>>)
NotFoundMsg(table_name) == Msg("Table or view not found", table_name)

\* What get_schema does with its connection open: the envelope it returns or
\* the exception that leaves it.
get_schema_body(ds, table_name) ==
    IF ~Truthy(table_name)
    THEN Returned(TableListing(ds))
    ELSE LET normalized_name == Strip(table_name.text)
             metadata == Lookup(ds, normalized_name)
         IN  IF normalized_name = <<>>
             THEN Returned([error |-> EmptyNameMsg])
             ELSE IF metadata = {}
             THEN Returned([error |-> NotFoundMsg(table_name.text)])
             ELSE LET rel == Catalog(ds)[CHOOSE i \in metadata : \A k \in metadata : i <= k]
                  IN  IF ~rel.binds
                      THEN Raised(EngineError("Binder Error"))
                      ELSE Returned(SchemaRecord(rel))

-----------------------------------------------------------------------------
(* Example queries. *)

C_SEARCH == <<"s","e","a","r","c","h">>
C_COMPARISON == <<"c","o","m","p","a","r","i","s","o","n">>
C_RANKING == <<"r","a","n","k","i","n","g">>
C_TRENDS == <<"t","r","e","n","d","s">>
C_FINANCIAL_ANALYSIS == <<"f","i","n","a","n","c","i","a","l","_","a","n","a","l","y","s","i","s">>
C_ALL == <<"a","l","l">>

\* sorted(ALLOWED_CATEGORIES)
SortedCategories == <<C_COMPARISON, C_FINANCIAL_ANALYSIS, C_RANKING, C_SEARCH, C_TRENDS>>

ALLOWED_CATEGORIES == {SortedCategories[i] : i \in DOMAIN SortedCategories}

\* The head of each category's block of EXAMPLE_QUERIES.
EXAMPLE_QUERIES ==
    << [category |-> C_SEARCH, title |-> "Find credit unions by name pattern"],
       [category |-> C_COMPARISON, title |-> "Compare two specific credit unions"],
       [category |-> C_RANKING, title |-> "Top 10 by assets"],
       [category |-> C_TRENDS, title |-> "Show metrics over time for one CU"],
       [category |-> C_FINANCIAL_ANALYSIS, title |-> "High performers across multiple metrics"] >>

get_example_queries(category) ==
    LET normalized == IF Truthy(category) THEN Lower(Strip(category.text)) ELSE C_ALL
    IN  IF Truthy(category) /\ normalized \notin ALLOWED_CATEGORIES
        THEN [error |-> Msg("Unknown category", <<>>),
              category |-> category.text,
              allowed_categories |-> SortedCategories]
        ELSE [category |-> normalized,
              examples |-> IF Truthy(category)
                           THEN SelectSeq(EXAMPLE_QUERIES, LAMBDA ex : ex.category = normalized)
                           ELSE EXAMPLE_QUERIES,
              available_categories |-> SortedCategories,
              note |-> "All queries reference the cu_with_ratios view and can be used as-is"]

-----------------------------------------------------------------------------
(* The gateway: tool calls, their workers and connections. *)

Calls == 1..MaxCalls

\* The arguments the model's callers pass to get_schema.
TableNameArgs ==
    {NoArg, Some(<<>>), Some(<<" ">>), Some(FOICU), Some(<<"F","O","I","C","U">>),
     Some(<<" ","F","o","i","c","u"," ">>), Some(FS220), Some(<<"C","u","_","W","i","t","h","_","R","a","t","i","o","s">>),
     Some(TABLES), Some(<<"n","o","n","e","x","i","s","t","e","n","t">>)}

\* The arguments the model's callers pass to get_example_queries.
CategoryArgs == {NoArg, Some(C_SEARCH), Some(<<" ","R","a","n","k","i","n","g"," ">>), Some(<<"b","o","g","u","s">>)}

TimeoutEnvelope(query) ==
    [error |-> Msg("Query exceeded 10 second timeout", <<>>),
     query |-> query,
     hint |-> "Simplify filters or aggregate before returning large result sets"]

\* An error envelope that echoes the trimmed statement.
ErrorEnvelopeTrimmed(query, exc) ==
    [error |-> Msg("Query execution failed: ", <<exc.text>>),
     query |-> Strip(query),
     hint |-> "Check table/column names using get_schema tool"]

ErrorEnvelope(query, exc) ==
    [error |-> Msg("Query execution failed: ", <<exc.text>>),
     query |-> query,
     hint |-> "Check table/column names using get_schema tool"]

\* The states the dataset file can be in when the gateway is serving.
Datasets == {"missing", "ok", "stale"}

NoFuture == [state |-> "none"]
Pending == [state |-> "pending"]

GwInit ==
    /\ dataset \in Datasets
    /\ tool = [c \in Calls |-> "none"]
    /\ arg = [c \in Calls |-> NoArg]
    /\ pc = [c \in Calls |-> "idle"]
    /\ worker = [c \in Calls |-> "none"]
    /\ submits = [c \in Calls |-> 0]
    /\ future = [c \in Calls |-> NoFuture]
    /\ conn = [c \in Calls |-> NoConn]
    /\ timedOut = [c \in Calls |-> FALSE]
    /\ outcome = [c \in Calls |-> NoOutcome]

\* Call c has not been issued yet.
Free(c) == pc[c] = "idle"

\* The pure parts of the tools, tabulated over the inputs of the model.
Validated == [query \in Queries |-> execute_sql_validate(query)]
Answer == [ds \in Datasets |-> [query \in Queries |-> Engine(ds, query)]]
Inspected == [ds \in Datasets |-> [a \in TableNameArgs |-> get_schema_body(ds, a)]]
Examples == [category \in CategoryArgs |-> get_example_queries(category)]

\* ThreadPoolExecutor.__exit__ returning without joining its worker.
ExecutorShutdownNoWait(c) == TRUE

\* ThreadPoolExecutor.__exit__ is shutdown(wait=True): it returns once the
\* worker thread has ended.
ExecutorShutdown(c) == worker[c] = "finished"

\* An executor.submit that hands the statement to a second worker as well.
SubmitTwice(count) == count + 2

\* executor.submit(_run_query): one more statement handed to a worker.
Submit(count) == count + 1

\* A statement kept where every call can write it: each worker runs the
\* statement of the lowest-numbered execute_sql call that reached its submit.
StatementShared(c) ==
    LET d == CHOOSE d \in Calls :
                /\ worker[d] # "none"
                /\ \A e \in Calls : worker[e] # "none" => d <= e
    IN  arg[d].text

\* The statement _run_query runs: the query parameter of the call that
\* defined it.
Statement(c) == arg[c].text

\* An except clause that hands over the worker's frame when it has arrived
\* by the time the executor has shut down.
OnTimeoutErrorLate(c) ==
    IF future[c].state = "result"
    THEN SuccessEnvelope(arg[c].text, future[c].frame)
    ELSE TimeoutEnvelope(arg[c].text)

\* except concurrent.futures.TimeoutError: the timeout envelope, whatever the
\* future holds by now.
OnTimeoutError(c) == TimeoutEnvelope(arg[c].text)

\* execute_sql up to future.result: validation, then the submit.
ExecuteSql(c, query) ==
    /\ Free(c)
    /\ tool' = [tool EXCEPT ![c] = "execute_sql"]
    /\ arg' = [arg EXCEPT ![c] = Some(query)]
    /\ LET checked == Validated[query]
       IN  IF checked # Accepted
           THEN /\ pc' = [pc EXCEPT ![c] = "done"]
                /\ outcome' = [outcome EXCEPT ![c] = Returned(checked)]
                /\ UNCHANGED <<worker, submits, future>>
           ELSE /\ pc' = [pc EXCEPT ![c] = "waiting"]
                /\ worker' = [worker EXCEPT ![c] = "started"]
                /\ submits' = [submits EXCEPT ![c] = Submit(@)]
                /\ future' = [future EXCEPT ![c] = Pending]
                /\ UNCHANGED outcome
    /\ UNCHANGED <<dataset, conn, timedOut>>

\* _run_query enters `with _get_connection() as conn`.
WorkerConnect(c) ==
    /\ worker[c] = "started"
    /\ LET opened == _get_connection(dataset)
       IN  IF opened.ok
           THEN /\ conn' = [conn EXCEPT ![c] = opened.conn]
                /\ worker' = [worker EXCEPT ![c] = "running"]
                /\ UNCHANGED future
           ELSE /\ future' = [future EXCEPT ![c] =
                                [state |-> "exception", exception |-> opened.exception]]
                /\ worker' = [worker EXCEPT ![c] = "finished"]
                /\ UNCHANGED conn
    /\ UNCHANGED <<dataset, tool, arg, pc, submits, timedOut, outcome>>

\* conn.execute(query).fetchdf() ends; the with block closes the connection
\* and the future takes the frame or the exception.
WorkerFinish(c) ==
    /\ worker[c] = "running"
    /\ LET ran == Answer[dataset][Statement(c)]
       IN  future' = [future EXCEPT ![c] =
                        IF ran.ok
                        THEN [state |-> "result", frame |-> ran.frame]
                        ELSE [state |-> "exception", exception |-> ran.exception]]
    /\ conn' = [conn EXCEPT ![c] = Close(conn[c])]
    /\ worker' = [worker EXCEPT ![c] = "finished"]
    /\ UNCHANGED <<dataset, tool, arg, pc, submits, timedOut, outcome>>

\* future.result(timeout=QUERY_TIMEOUT_SECONDS) gives up on a pending future
\* and raises TimeoutError inside the executor's with block.
Deadline(c) ==
    /\ pc[c] = "waiting"
    /\ future[c] = Pending
    /\ timedOut' = [timedOut EXCEPT ![c] = TRUE]
    /\ pc' = [pc EXCEPT ![c] = "shutdown"]
    /\ UNCHANGED <<dataset, tool, arg, worker, submits, future, conn, outcome>>

\* future.result hands over the frame or re-raises the worker's exception;
\* the executor is shut down and the envelope is returned.
Collect(c) ==
    /\ pc[c] = "waiting"
    /\ future[c].state \in {"result", "exception"}
    /\ ExecutorShutdown(c)
    /\ outcome' = [outcome EXCEPT ![c] =
                     IF future[c].state = "result"
                     THEN Returned(SuccessEnvelope(arg[c].text, future[c].frame))
                     ELSE Returned(ErrorEnvelope(arg[c].text, future[c].exception))]
    /\ pc' = [pc EXCEPT ![c] = "done"]
    /\ UNCHANGED <<dataset, tool, arg, worker, submits, future, conn, timedOut>>

\* The TimeoutError leaves the executor's with block once __exit__ is through,
\* and the except clause returns the timeout envelope.
TimeoutReturn(c) ==
    /\ pc[c] = "shutdown"
    /\ ExecutorShutdown(c)
    /\ outcome' = [outcome EXCEPT ![c] = Returned(OnTimeoutError(c))]
    /\ pc' = [pc EXCEPT ![c] = "done"]
    /\ UNCHANGED <<dataset, tool, arg, worker, submits, future, conn, timedOut>>

\* get_schema enters `with _get_connection() as conn`; a missing file raises
\* out of the tool.
GetSchema(c, table_name) ==
    /\ Free(c)
    /\ tool' = [tool EXCEPT ![c] = "get_schema"]
    /\ arg' = [arg EXCEPT ![c] = table_name]
    /\ LET opened == _get_connection(dataset)
       IN  IF opened.ok
           THEN /\ conn' = [conn EXCEPT ![c] = opened.conn]
                /\ pc' = [pc EXCEPT ![c] = "inspecting"]
                /\ UNCHANGED outcome
           ELSE /\ pc' = [pc EXCEPT ![c] = "done"]
                /\ outcome' = [outcome EXCEPT ![c] = Raised(opened.exception)]
                /\ UNCHANGED conn
    /\ UNCHANGED <<dataset, worker, submits, future, timedOut>>

\* The body of get_schema runs; the with block closes the connection on the
\* way out, by return or by exception.
SchemaBody(c) ==
    /\ pc[c] = "inspecting"
    /\ outcome' = [outcome EXCEPT ![c] = Inspected[dataset][arg[c]]]
    /\ conn' = [conn EXCEPT ![c] = Close(conn[c])]
    /\ pc' = [pc EXCEPT ![c] = "done"]
    /\ UNCHANGED <<dataset, tool, arg, worker, submits, future, timedOut>>

GetExampleQueries(c, category) ==
    /\ Free(c)
    /\ tool' = [tool EXCEPT ![c] = "get_example_queries"]
    /\ arg' = [arg EXCEPT ![c] = category]
    /\ outcome' = [outcome EXCEPT ![c] = Returned(Examples[category])]
    /\ pc' = [pc EXCEPT ![c] = "done"]
    /\ UNCHANGED <<dataset, worker, submits, future, conn, timedOut>>

-----------------------------------------------------------------------------
(* Specifications. *)

ValIdle == vQuery = <<>> /\ vDirect = NotRun /\ vGateway = NotRun
CapIdle == capFrame = CapFrameOf(0) /\ capEnvelope = NotRun
GwIdle ==
    /\ dataset = "ok"
    /\ tool = [c \in Calls |-> "none"]
    /\ arg = [c \in Calls |-> NoArg]
    /\ pc = [c \in Calls |-> "idle"]
    /\ worker = [c \in Calls |-> "none"]
    /\ submits = [c \in Calls |-> 0]
    /\ future = [c \in Calls |-> NoFuture]
    /\ conn = [c \in Calls |-> NoConn]
    /\ timedOut = [c \in Calls |-> FALSE]
    /\ outcome = [c \in Calls |-> NoOutcome]

Init == GwInit /\ ValIdle /\ CapIdle

Harness == UNCHANGED <<valVars, capVars>>

Next ==
    \/ \E c \in Calls, query \in Queries : ExecuteSql(c, query) /\ Harness
    \/ \E c \in Calls : WorkerConnect(c) /\ Harness
    \/ \E c \in Calls : WorkerFinish(c) /\ Harness
    \/ \E c \in Calls : Deadline(c) /\ Harness
    \/ \E c \in Calls : Collect(c) /\ Harness
    \/ \E c \in Calls : TimeoutReturn(c) /\ Harness
    \/ \E c \in Calls, table_name \in TableNameArgs : GetSchema(c, table_name) /\ Harness
    \/ \E c \in Calls : SchemaBody(c) /\ Harness
    \/ \E c \in Calls, category \in CategoryArgs : GetExampleQueries(c, category) /\ Harness

\* The gateway serving tool calls.
Spec == Init /\ [][Next]_vars

\* is_safe_query and execute_sql's validation as functions of the text.
ValSteps ==
    \/ ValidateDirect /\ UNCHANGED <<capVars, gwVars>>
    \/ ValidateViaGateway /\ UNCHANGED <<capVars, gwVars>>

ValidatorInit == ValInit /\ CapIdle /\ GwIdle

SpecValidator == ValidatorInit /\ [][ValSteps]_vars

\* The tail of execute_sql as a function of the engine's frame.
CapSteps == CapApply /\ UNCHANGED <<valVars, gwVars>>

CapHarnessInit == CapInit /\ ValIdle /\ GwIdle

SpecCap == CapHarnessInit /\ [][CapSteps]_vars

-----------------------------------------------------------------------------
(* Properties. *)

ATTACH == <<"A","T","T","A","C","H">>
DETACH == <<"D","E","T","A","C","H">>

\* The keywords the validator is specified to block.
SpecifiedKeywords ==
    {FORBIDDEN_KEYWORDS[k] : k \in DOMAIN FORBIDDEN_KEYWORDS} \cup {ATTACH, DETACH}

\* text holds keyword as a case-insensitive substring.
Mentions(text, keyword) ==
    \E i \in 0..(Len(text) - Len(keyword)) :
        \A j \in 1..Len(keyword) : UpperChar(text[i + j]) = keyword[j]

\* text is empty or all whitespace.
Blank(text) == \A i \in DOMAIN text : text[i] \in Whitespace

\* text, leading whitespace skipped, begins with SELECT in any letter case.
BeginsWithSelect(text) ==
    \E i \in 0..(Len(text) - Len(SELECT)) :
        /\ \A j \in 1..i : text[j] \in Whitespace
        /\ \A j \in 1..Len(SELECT) : UpperChar(text[i + j]) = SELECT[j]

IsExecuteSql(c) == tool[c] = "execute_sql"
IsGetSchema(c) == tool[c] = "get_schema"
Done(c) == pc[c] = "done"
Env(c) == outcome[c].envelope
ReturnedEnvelope(c) == Done(c) /\ outcome[c].kind = "envelope"
Keys(envelope) == DOMAIN envelope

\* C1: no statement that mentions DROP, DELETE, INSERT, UPDATE, ALTER,
\* CREATE, TRUNCATE, ATTACH or DETACH, in any letter case and anywhere in its
\* text, is handed to a worker by execute_sql: validation rejects it.
C1_NoBlockedStatementSubmitted ==
    \A c \in Calls :
        (IsExecuteSql(c) /\ \E k \in SpecifiedKeywords : Mentions(arg[c].text, k))
            => /\ worker[c] = "none"
               /\ future[c] = NoFuture
               /\ Done(c) => "error" \in Keys(Env(c))

\* C2: once the deadline has passed on a running worker, the call's return
\* with the timeout envelope is not held back by anything: it can happen at
\* once, the worker still running.
C2_TimeoutReturnNotDelayed ==
    \A c \in Calls :
        (pc[c] = "shutdown" /\ timedOut[c]) => ENABLED TimeoutReturn(c)

\* C3: when an execute_sql or get_schema call has returned, by envelope or
\* by exception, no connection it opened is open: success, engine error and
\* timeout alike.
C3_ConnectionsClosedAtReturn ==
    \A c \in Calls :
        /\ Done(c) => conn[c].state # "open"
        /\ (Done(c) /\ conn[c] # NoConn) => conn[c].state = "closed"
        /\ (Done(c) /\ IsExecuteSql(c)) => worker[c] \in {"none", "finished"}

\* C3 witness: a timed-out execute_sql call has returned and the connection
\* its worker opened is closed.
C3_Witness ==
    \E c \in Calls :
        /\ IsExecuteSql(c) /\ Done(c) /\ timedOut[c]
        /\ conn[c].state = "closed"
        /\ "hint" \in Keys(Env(c))

\* C4: no tool call ends by an exception crossing the tool boundary; every
\* failure comes back as an envelope that carries an error.
C4_NoExceptionEscapes ==
    \A c \in Calls :
        Done(c) =>
            /\ outcome[c].kind = "envelope"
            /\ (dataset = "missing" /\ tool[c] # "get_example_queries")
                    => "error" \in Keys(Env(c))

CapMin(a, b) == IF a < b THEN a ELSE b

\* C5: a successful execution of n rows under the cap MAX_ROWS returns as
\* data the first min(n, MAX_ROWS) rows of the engine's result, in the
\* engine's order; row_count is min(n, MAX_ROWS) and the length of data; the
\* warning is present exactly when n > MAX_ROWS.
C5_CapKeepsFirstRows ==
    capEnvelope.run =>
        LET n == Len(capFrame.rows)
            kept == CapMin(n, MAX_ROWS)
            envelope == capEnvelope.envelope
        IN  /\ Len(envelope.data) = kept
            /\ envelope.row_count = kept
            /\ \A i \in 1..kept :
                  /\ \A j \in DOMAIN CapColumns :
                        envelope.data[i][CapColumns[j]].v = capFrame.rows[i][j].v
                  /\ DOMAIN envelope.data[i] = {CapColumns[j] : j \in DOMAIN CapColumns}
            /\ (envelope.warning # NoWarning) <=> (n > MAX_ROWS)

\* C5 witness: a result of more than MAX_ROWS rows came back cut to MAX_ROWS
\* rows with the warning set.
C5_Witness ==
    /\ capEnvelope.run
    /\ Len(capFrame.rows) > MAX_ROWS
    /\ capEnvelope.envelope.row_count = MAX_ROWS
    /\ capEnvelope.envelope.warning = LimitWarning

\* C6: an execute_sql call returns one envelope whose keys follow from the
\* outcome: validation failure {error, query}; timeout and engine error
\* {error, query, hint}; success {data, row_count, query, warning}; and query
\* is always the caller's text, unchanged.  Before the return nothing has
\* crossed the tool boundary.
C6_EnvelopeShape ==
    \A c \in Calls :
        IsExecuteSql(c) =>
            /\ ~Done(c) => outcome[c] = NoOutcome
            /\ Done(c) =>
                /\ outcome[c].kind = "envelope"
                /\ Env(c).query = arg[c].text
                /\ Keys(Env(c)) =
                      IF worker[c] = "none" THEN {"error", "query"}
                      ELSE IF timedOut[c] THEN {"error", "query", "hint"}
                      ELSE IF future[c].state = "exception" THEN {"error", "query", "hint"}
                      ELSE {"data", "row_count", "query", "warning"}

\* C6 witness: the calls have returned, one with the timeout envelope and
\* one with the engine-error envelope for a padded statement.
C6_Witness ==
    \E c, d \in Calls :
        /\ IsExecuteSql(c) /\ Done(c) /\ timedOut[c]
        /\ Keys(Env(c)) = {"error", "query", "hint"}
        /\ IsExecuteSql(d) /\ Done(d) /\ ~timedOut[d]
        /\ future[d].state = "exception"
        /\ Env(d).query = Q_UNKNOWN_COLUMN

\* C7: an empty or whitespace-only text is rejected with the one "empty
\* query" reason, whether is_safe_query is called directly or the text
\* comes in through execute_sql.
C7_EmptyReasonStable ==
    Blank(vQuery) =>
        /\ vDirect.run => vDirect.verdict = <<FALSE, EmptyQueryMsg>>
        /\ vGateway.run => vGateway.outcome = [error |-> EmptyQueryMsg, query |-> vQuery]

\* C8: a statement that does not begin with SELECT (leading whitespace
\* skipped, any letter case) is rejected before execution: no worker is
\* started and no connection opened for it, and the call returns an error.
C8_NonSelectNeverExecutes ==
    \A c \in Calls :
        (IsExecuteSql(c) /\ ~BeginsWithSelect(arg[c].text)) =>
            /\ Done(c)
            /\ worker[c] = "none"
            /\ future[c] = NoFuture
            /\ conn[c] = NoConn
            /\ outcome[c].kind = "envelope"
            /\ Keys(Env(c)) = {"error", "query"}

\* C8 witness: a statement that holds SELECT but does not begin with it has
\* been rejected.
C8_Witness ==
    \E c \in Calls :
        /\ IsExecuteSql(c) /\ Done(c)
        /\ arg[c].text = Q_EXPLAIN
        /\ Env(c).error = OnlySelectMsg
        /\ worker[c] = "none" /\ conn[c] = NoConn

BlockedKeywords == {FORBIDDEN_KEYWORDS[k] : k \in DOMAIN FORBIDDEN_KEYWORDS}

\* The reason names a blocklisted keyword that the text mentions.
NamesKeywordOf(reason, text) ==
    /\ reason.text = ForbiddenMsg(<<>>).text
    /\ reason.arg \in BlockedKeywords
    /\ Mentions(text, reason.arg)

\* C9 as stated: whenever the text mentions a blocklisted keyword, in any
\* letter case and anywhere, also inside a quoted literal and also when the
\* text does not begin with SELECT, the rejection reason names a blocklisted
\* keyword that the text mentions.
C9_ReasonAlwaysNamesKeyword ==
    (vDirect.run /\ \E k \in BlockedKeywords : Mentions(vQuery, k)) =>
        /\ vDirect.verdict[1] = FALSE
        /\ NamesKeywordOf(vDirect.verdict[2], vQuery)

\* C9 as amended: a text that begins with SELECT and mentions a blocklisted
\* keyword, also inside a quoted literal, is rejected with a reason naming a
\* blocklisted keyword it mentions; a text that mentions one but does not
\* begin with SELECT is rejected with the only-SELECT reason.  execute_sql
\* reports the same reason for every such text that is not blank.
C9_ReasonNamesKeywordAfterSelect ==
    (\E k \in BlockedKeywords : Mentions(vQuery, k)) =>
        /\ vDirect.run =>
            /\ vDirect.verdict[1] = FALSE
            /\ IF BeginsWithSelect(vQuery)
               THEN NamesKeywordOf(vDirect.verdict[2], vQuery)
               ELSE vDirect.verdict[2] = OnlySelectMsg
        /\ vGateway.run =>
            /\ vGateway.outcome # Accepted
            /\ vGateway.outcome.query = vQuery
            /\ IF BeginsWithSelect(vQuery)
               THEN NamesKeywordOf(vGateway.outcome.error, vQuery)
               ELSE vGateway.outcome.error = OnlySelectMsg

\* C9 witness: a SELECT whose only blocked word sits in a quoted literal, in
\* lower case, has been rejected with that keyword named.
C9_Witness ==
    /\ vQuery = <<"s","e","l","e","c","t","'","d","r","o","p">>
    /\ vDirect.run
    /\ vDirect.verdict = <<FALSE, ForbiddenMsg(FORBIDDEN_KEYWORDS[1])>>

\* The user-visible relations whose name equals name up to letter case.
Matching(name) ==
    {i \in DOMAIN Catalog(dataset) :
        /\ UserVisible(Catalog(dataset)[i])
        /\ Len(Catalog(dataset)[i].table_name) = Len(name)
        /\ \A j \in DOMAIN name :
              UpperChar(Catalog(dataset)[i].table_name[j]) = UpperChar(name[j])}

IsNotFound(envelope) ==
    /\ Keys(envelope) = {"error"}
    /\ envelope.error.text = NotFoundMsg(<<>>).text

IsSchemaRecord(envelope) == "table_name" \in Keys(envelope)

\* A get_schema call with a non-empty name has returned an envelope.
NamedLookupReturned(c) ==
    /\ IsGetSchema(c) /\ ReturnedEnvelope(c)
    /\ ~arg[c].none /\ arg[c].text # <<>>

\* The same, the name holding more than whitespace.
WordLookupReturned(c) == NamedLookupReturned(c) /\ ~Blank(arg[c].text)

Serialized == FrameHead(capFrame, MAX_ROWS)

\* C11: serializing a tabular result keeps every cell: an empty result gives
\* the empty sequence; otherwise there is one row mapping per result row, in
\* the result's order, whose keys are exactly the column names, and a null
\* cell appears under its key as the explicit null value None.
C11_NullCellsBecomeNone ==
    capEnvelope.run =>
        LET data == capEnvelope.envelope.data
        IN  /\ Serialized.rows = <<>> => data = <<>>
            /\ Len(data) = Len(Serialized.rows)
            /\ \A i \in DOMAIN data :
                  /\ DOMAIN data[i] = {CapColumns[j] : j \in DOMAIN CapColumns}
                  /\ \A j \in DOMAIN CapColumns :
                        IF Serialized.rows[i][j].kind \in NullKinds
                        THEN data[i][CapColumns[j]] = None
                        ELSE data[i][CapColumns[j]].v = Serialized.rows[i][j].v

\* C12: every dataset connection a tool call has opened, whether still open
\* or already closed, was opened in read-only mode, whatever the tool and
\* its argument; a call that holds no connection has opened none.
C12_ConnectionsReadOnly ==
    \A c \in Calls :
        /\ conn[c] # NoConn => conn[c].read_only
        /\ conn[c] # NoConn => (IsExecuteSql(c) \/ IsGetSchema(c))

\* C12 witness: an execute_sql worker and a get_schema call hold open
\* connections at the same time, both read-only.
C12_Witness ==
    \E c, d \in Calls :
        /\ IsExecuteSql(c) /\ worker[c] = "running"
        /\ conn[c].state = "open" /\ conn[c].read_only
        /\ IsGetSchema(d) /\ pc[d] = "inspecting"
        /\ conn[d].state = "open" /\ conn[d].read_only

\* C13: within one execute_sql call the validated statement is submitted to
\* one worker, once: the call never has more than one submit (so never two
\* workers in flight), a rejected statement has none, an accepted one has
\* exactly one, and the count is still one in every state after the deadline
\* expired or the worker raised, up to and after the call's return.
C13_SubmittedExactlyOnce ==
    \A c \in Calls :
        /\ submits[c] <= 1
        /\ submits[c] = IF worker[c] = "none" THEN 0 ELSE 1
        /\ IsExecuteSql(c) =>
              submits[c] = IF Validated[arg[c].text] = Accepted THEN 1 ELSE 0
        /\ (timedOut[c] \/ future[c].state = "exception") => submits[c] = 1

\* C13 witness: one call has returned after a timeout and another after an
\* engine error, each with its single submit.
C13_Witness ==
    \E c, d \in Calls :
        /\ Done(c) /\ timedOut[c] /\ submits[c] = 1
        /\ Done(d) /\ ~timedOut[d] /\ future[d].state = "exception"
        /\ outcome[d] = Returned(ErrorEnvelope(arg[d].text, future[d].exception))
        /\ submits[d] = 1

\* The frame the engine answers for call d's own statement.
OwnFrame(d) == Answer[dataset][arg[d].text].frame

\* C14: once the deadline has expired for an execute_sql call, nothing
\* crosses the tool boundary until the call returns, and what it returns is
\* the timeout error envelope {error, query, hint}, without data or
\* row_count, also when its worker has completed with a frame in the
\* meantime; that frame reaches no call: every envelope with data belongs to
\* a call that did not time out and carries the frame of that call's own
\* statement.
C14_TimeoutEnvelopeAfterDeadline ==
    \A c \in Calls :
        /\ (timedOut[c] /\ ~Done(c)) => outcome[c] = NoOutcome
        /\ (timedOut[c] /\ Done(c)) =>
              /\ outcome[c].kind = "envelope"
              /\ Keys(Env(c)) = {"error", "query", "hint"}
              /\ Env(c).error = Msg("Query exceeded 10 second timeout", <<>>)
              /\ Env(c).query = arg[c].text
        /\ (IsExecuteSql(c) /\ ReturnedEnvelope(c) /\ "data" \in Keys(Env(c))) =>
              /\ ~timedOut[c]
              /\ future[c].state = "result"
              /\ future[c].frame = OwnFrame(c)
              /\ Env(c) = SuccessEnvelope(arg[c].text, OwnFrame(c))

\* C14 witness: a call whose deadline expired has returned the timeout
\* envelope while its future holds the rows its worker delivered late, and
\* another call with a different statement has returned its own rows.
C14_Witness ==
    \E c, d \in Calls :
        /\ Done(c) /\ timedOut[c]
        /\ future[c].state = "result" /\ future[c].frame.rows # <<>>
        /\ Env(c) = TimeoutEnvelope(arg[c].text)
        /\ IsExecuteSql(d) /\ ReturnedEnvelope(d) /\ arg[d] # arg[c]
        /\ "data" \in Keys(Env(d)) /\ Env(d).data # <<>>
        /\ Env(d).row_count # FrameLen(future[c].frame)

\* What a call of tool t with argument a can hand back when it is the only
\* call served, against dataset ds: for execute_sql the timeout envelope or
\* the envelope of the statement's own execution, for the other tools the one
\* answer the dataset determines.
AloneOutcomes(ds, t, a) ==
    CASE t = "execute_sql" ->
            IF Validated[a.text] # Accepted
            THEN {Returned(Validated[a.text])}
            ELSE {Returned(TimeoutEnvelope(a.text)),
                  IF ds = "missing"
                  THEN Returned(ErrorEnvelope(a.text, FileNotFoundError))
                  ELSE IF Answer[ds][a.text].ok
                       THEN Returned(SuccessEnvelope(a.text, Answer[ds][a.text].frame))
                       ELSE Returned(ErrorEnvelope(a.text, Answer[ds][a.text].exception))}
      [] t = "get_schema" ->
            {IF ds = "missing" THEN Raised(FileNotFoundError) ELSE Inspected[ds][a]}
      [] t = "get_example_queries" -> {Returned(Examples[a])}
      [] OTHER -> {}

\* Everything call c owns: its thread's position, its worker, future and
\* connection, and what it handed back.
OwnState(c) ==
    <<tool[c], arg[c], pc[c], worker[c], submits[c], future[c], conn[c],
      timedOut[c], outcome[c]>>

\* Calls c and d have both returned, for the same tool and argument, and both
\* or neither after a timeout.
SameCall(c, d) ==
    /\ Done(c) /\ Done(d)
    /\ tool[c] = tool[d] /\ arg[c] = arg[d] /\ timedOut[c] = timedOut[d]

\* C15 (states): in every interleaving, what a returned call handed back is
\* something the same call hands back when served alone against the same
\* dataset, two returned calls with the same tool and argument (both or
\* neither timed out) handed back the same thing, and a connection or worker
\* belongs to a call of the tool that opens one.
C15_EnvelopeAsIfAlone ==
    \A c \in Calls :
        /\ Done(c) => outcome[c] \in AloneOutcomes(dataset, tool[c], arg[c])
        /\ \A d \in Calls : SameCall(c, d) => outcome[c] = outcome[d]
        /\ worker[c] # "none" => IsExecuteSql(c)
        /\ conn[c] # NoConn => (IsExecuteSql(c) \/ IsGetSchema(c))
        /\ (IsExecuteSql(c) /\ conn[c] # NoConn) => worker[c] \in {"running", "finished"}

\* C15 (steps): no step touches what two different calls own: a call's
\* connection, worker and future change only in that call's own steps.
C15_StepsTouchOneCall ==
    \A c, d \in Calls :
        c # d => ~(OwnState(c)' # OwnState(c) /\ OwnState(d)' # OwnState(d))

\* C15: under any interleaving of concurrently issued tool calls each call
\* uses only the connection and worker it opened itself, and its envelope is
\* the one it would hand back if it ran alone against the same dataset.
C15_CallsAreIndependent == []C15_EnvelopeAsIfAlone /\ [][C15_StepsTouchOneCall]_vars

\* C15 witness: an execute_sql call has returned its own rows while the
\* worker of another execute_sql call, with a different statement and past
\* its deadline, still runs on its own open connection.
C15_Witness ==
    \E c, d \in Calls :
        /\ IsExecuteSql(c) /\ IsExecuteSql(d) /\ arg[c] # arg[d]
        /\ ReturnedEnvelope(c) /\ "data" \in Keys(Env(c)) /\ Env(c).data # <<>>
        /\ conn[c].state = "closed"
        /\ timedOut[d] /\ worker[d] = "running" /\ conn[d].state = "open"
        /\ Answer[dataset][arg[d].text].ok
        /\ Answer[dataset][arg[d].text].frame # future[c].frame

=============================================================================
